---- MODULE Spec2Model ----
(***************************************************************************)
(* Model of chrome/browser/usb/usb_service.cc: the UsbEventHandler pump    *)
(* thread, the UsbService device registry (devices_), device enumeration   *)
(* and the permission-broker gate of FindDevices.                          *)
(*                                                                         *)
(* The model is of the release build: DCHECK(...) evaluates nothing and    *)
(* never aborts.  (DCHECK(event_handler_) could not fire after Shutdown in *)
(* a debug build either: Shutdown deletes event_handler_ without nulling   *)
(* the pointer.)                                                           *)
(***************************************************************************)
EXTENDS Integers, Sequences, FiniteSets, TLC

\* ---------------------------------------------------------------- bounds
NumDevices == 2      \* physical devices the backend may expose
MaxHandles == 2      \* successful libusb_open calls over a run
MaxRequests == 1     \* FindDevices requests over a run
NumThreads == 2      \* concurrent caller threads (SpecConcurrent only)

PlatformDevices == 1..NumDevices
NoDevice == 0
Handles == 1..MaxHandles
NoHandle == 0
Requests == 1..MaxRequests
Threads == 1..NumThreads
\* The (vendor, product) pairs callers ask for: the ids of device 1, and a
\* pair that shares one id with device 2 and one with device 3.
Wanted == {<<1, 1>>, <<2, 2>>}

\* ---------------------------------------------------------------- state
VARIABLES
  svc,            \* position of the thread that owns the service
  context_,       \* UsbService::context_: "unset", "ctx" or "NULL"
  ctxAlive,       \* the libusb context object exists (init .. exit)
  event_handler_, \* "unset", "live" or "dangling" (deleted, pointer kept)
  running_,       \* UsbEventHandler::running_
  started_event_, \* UsbEventHandler::started_event_ is signalled
  interrupted,    \* libusb control pipe holds an interrupt byte
  pump,           \* position of the UsbEventHandler thread
  threadsCreated, \* PlatformThread::Create calls
  plugged,        \* devices the backend currently lists
  devices_,       \* UsbService::devices_: device -> handle
  hstate,         \* per backend handle: "unalloc", "open" or "closed"
  hdev,           \* per backend handle: the device it was opened on
  req,            \* the FindDevices requests in flight: state, bound arguments,
                  \* callback runs
  call,           \* the service call that has just completed, until it returns
  thr             \* caller threads of SpecConcurrent

pumpVars == <<running_, started_event_, interrupted, pump, threadsCreated>>
svcVars == <<svc, context_, ctxAlive, event_handler_>>
regVars == <<devices_, hstate, hdev>>
vars == <<svc, context_, ctxAlive, event_handler_, running_, started_event_,
          interrupted, pump, threadsCreated, plugged, devices_, hstate, hdev,
          req, call, thr>>

\* ---------------------------------------------------------------- helpers
ContainsKey(m, k) == k \in DOMAIN m
\* Erase that leaves the entry in place
EraseNothing(m, k) == m
Erase(m, k) == [x \in DOMAIN m \ {k} |-> m[x]]
Put(m, k, v) == [x \in DOMAIN m \cup {k} |-> IF x = k THEN v ELSE m[x]]
EmptyMap == [x \in {} |-> NoHandle]

\* context: what context_ was when FindDevices was called
IdleRequest == [state |-> "idle", vendor |-> 0, product |-> 0, runs |-> 0,
                context |-> "unset"]
\* op: the entry point; path: how FindDevices got there, "again" for an
\* EnumerateDevices made straight after another; vendor, product: its
\* arguments; handle, device: the handle passed to CloseDevice and what
\* libusb_get_device made of it; calls: the backend primitives invoked; out:
\* the caller's vector when the call returned or its callback ran; listed: the
\* devices its list query yielded; failed: the backend calls that failed, as
\* <<primitive, device>>; refs: what the call added to each device's backend
\* reference count through its tokens
NoCall == [op |-> "none", path |-> "none", vendor |-> 0, product |-> 0,
           handle |-> NoHandle, device |-> NoDevice, calls |-> {}, out |-> <<>>,
           listed |-> {}, failed |-> {},
           refs |-> [d \in PlatformDevices |-> 0]]
IdleThread == [pc |-> "idle", find |-> FALSE, vendor |-> 0, product |-> 0,
               work |-> <<>>, device |-> NoDevice, handle |-> NoHandle,
               out |-> <<>>]

\* nothing is open, no request was made, any set of devices is plugged in
InitRegistry ==
  /\ plugged \in SUBSET PlatformDevices
  /\ devices_ = EmptyMap
  /\ hstate = [h \in Handles |-> "unalloc"]
  /\ hdev = [h \in Handles |-> NoDevice]
  /\ req = [r \in Requests |-> IdleRequest]
  /\ call = NoCall
  /\ thr = [t \in Threads |-> IdleThread]

\* before UsbService::UsbService runs
InitNew ==
  /\ svc = "new"
  /\ context_ = "unset"
  /\ ctxAlive = FALSE
  /\ event_handler_ = "unset"
  /\ running_ = FALSE
  /\ started_event_ = FALSE
  /\ interrupted = FALSE
  /\ pump = "unborn"
  /\ threadsCreated = 0
  /\ InitRegistry

\* after UsbService::UsbService has returned, the pump thread blocked in
\* libusb_handle_events
Init ==
  /\ svc = "ready"
  /\ context_ = "ctx"
  /\ ctxAlive = TRUE
  /\ event_handler_ = "live"
  /\ running_ = TRUE
  /\ started_event_ = FALSE
  /\ interrupted = FALSE
  /\ pump = "parked"
  /\ threadsCreated = 1
  /\ InitRegistry

\* ------------------------------------------------- UsbService::UsbService
\* libusb_init(&context_)
CtorInit ==
  /\ svc = "new"
  /\ context_' = "ctx"
  /\ ctxAlive' = TRUE
  /\ svc' = "ctor_create"
  /\ UNCHANGED <<event_handler_, pumpVars, plugged, regVars, req, call, thr>>

\* new UsbEventHandler(context_): the member initialisers and
\* PlatformThread::Create
CtorCreateThread ==
  /\ svc = "ctor_create"
  /\ running_' = TRUE
  /\ started_event_' = FALSE
  /\ pump' = "start"
  /\ threadsCreated' = threadsCreated + 1
  /\ svc' = "ctor_wait"
  /\ UNCHANGED <<context_, ctxAlive, event_handler_, interrupted, plugged,
                 regVars, req, call, thr>>

\* CtorWait without the rendezvous: the constructor returns at once
CtorNoWait ==
  /\ svc = "ctor_wait"
  /\ started_event_' = FALSE
  /\ event_handler_' = "live"
  /\ svc' = "ready"
  /\ UNCHANGED <<context_, ctxAlive, running_, interrupted, pump, threadsCreated,
                 plugged, regVars, req, call, thr>>

\* started_event_.Wait() on an auto-reset event, then event_handler_ = ...
CtorWait ==
  /\ svc = "ctor_wait"
  /\ started_event_
  /\ started_event_' = FALSE
  /\ event_handler_' = "live"
  /\ svc' = "ready"
  /\ UNCHANGED <<context_, ctxAlive, running_, interrupted, pump, threadsCreated,
                 plugged, regVars, req, call, thr>>

\* ------------------------------------------- UsbEventHandler::ThreadMain
\* SetName, VLOG, started_event_.Signal()
PumpSignal ==
  /\ pump = "start"
  /\ started_event_' = TRUE
  /\ pump' = "test"
  /\ UNCHANGED <<svcVars, running_, interrupted, threadsCreated, plugged,
                 regVars, req, call, thr>>

\* while (running_)
PumpTest ==
  /\ pump = "test"
  /\ pump' = IF running_ THEN "call" ELSE "done"
  /\ UNCHANGED <<svcVars, running_, started_event_, interrupted, threadsCreated,
                 plugged, regVars, req, call, thr>>

\* libusb_handle_events(context_) is entered and blocks in poll
PumpEnterHandleEvents ==
  /\ pump = "call"
  /\ pump' = "parked"
  /\ UNCHANGED <<svcVars, running_, started_event_, interrupted, threadsCreated,
                 plugged, regVars, req, call, thr>>

\* libusb_handle_events returns because the control pipe is readable.  The
\* byte written by libusb_interrupt_handle_event is not drained.
PumpInterrupted ==
  /\ pump = "parked"
  /\ interrupted
  /\ pump' = "test"
  /\ UNCHANGED <<svcVars, running_, started_event_, interrupted, threadsCreated,
                 plugged, regVars, req, call, thr>>

\* libusb_handle_events returns because a USB event was serviced
PumpEvent ==
  /\ pump = "parked"
  /\ ~interrupted
  /\ pump' = "test"
  /\ UNCHANGED <<svcVars, running_, started_event_, interrupted, threadsCreated,
                 plugged, regVars, req, call, thr>>

PumpStep ==
  PumpSignal \/ PumpTest \/ PumpEnterHandleEvents \/ PumpInterrupted

\* ------------------------------- UsbService::Shutdown, UsbEventHandler::Stop
\* running_ = false; MemoryBarrier()
StopSetRunning ==
  /\ call = NoCall
  /\ svc = "ready"
  /\ running_' = FALSE
  /\ svc' = "stop_interrupt"
  /\ UNCHANGED <<context_, ctxAlive, event_handler_, started_event_, interrupted,
                 pump, threadsCreated, plugged, regVars, req, call, thr>>

\* StopInterrupt without the interrupt: the flag alone
StopNoInterrupt ==
  /\ svc = "stop_interrupt"
  /\ svc' = "stop_join"
  /\ UNCHANGED <<context_, ctxAlive, event_handler_, pumpVars, plugged, regVars,
                 req, call, thr>>

\* libusb_interrupt_handle_event(context_)
StopInterrupt ==
  /\ svc = "stop_interrupt"
  /\ interrupted' = TRUE
  /\ svc' = "stop_join"
  /\ UNCHANGED <<context_, ctxAlive, event_handler_, running_, started_event_,
                 pump, threadsCreated, plugged, regVars, req, call, thr>>

\* StopJoin that does not wait for the thread
StopJoinDetached ==
  /\ svc = "stop_join"
  /\ svc' = "stopped"
  /\ UNCHANGED <<context_, ctxAlive, event_handler_, pumpVars, plugged, regVars,
                 req, call, thr>>

\* PlatformThread::Join(thread_handle_) returns once the thread has exited
StopJoin ==
  /\ svc = "stop_join"
  /\ pump = "done"
  /\ svc' = "stopped"
  /\ UNCHANGED <<context_, ctxAlive, event_handler_, pumpVars, plugged, regVars,
                 req, call, thr>>

\* delete event_handler_ (the pointer is not reset); libusb_exit(context_);
\* context_ = NULL
ShutdownExit ==
  /\ svc = "stopped"
  /\ event_handler_' = "dangling"
  /\ ctxAlive' = FALSE
  /\ context_' = "NULL"
  /\ svc' = "shutdown"
  /\ UNCHANGED <<pumpVars, plugged, regVars, req, call, thr>>

\* ---------------------------------------------------------------- backend
\* hot-plug: the device list of the backend changes, between service calls
Plug ==
  /\ call = NoCall \/ call.op = "EnumerateDevices"
  /\ \E d \in PlatformDevices \ plugged : plugged' = plugged \cup {d}
  /\ UNCHANGED <<svcVars, pumpVars, regVars, req, call, thr>>

Unplug ==
  /\ call = NoCall \/ call.op = "EnumerateDevices"
  /\ \E d \in plugged : plugged' = plugged \ {d}
  /\ UNCHANGED <<svcVars, pumpVars, regVars, req, call, thr>>

\* libusb_get_device_list: the listed devices in the backend's order, or a
\* negative count.  With context_ == NULL after Shutdown the call works on
\* whatever the default context is: either outcome may be produced.
RECURSIVE SeqOfSet(_)
SeqOfSet(S) ==
  IF S = {} THEN <<>>
  ELSE LET m == CHOOSE x \in S : \A y \in S : x <= y
       IN <<m>> \o SeqOfSet(S \ {m})

\* idVendor / idProduct of the descriptor of each device
idVendor(d) == (((d - 1) \div 2) % 2) + 1
idProduct(d) == ((d - 1) % 2) + 1

\* the handle libusb_open returns: one never handed out before
FreshHandle(hs) == CHOOSE h \in Handles : hs[h] = "unalloc" /\
                     \A g \in Handles : hs[g] = "unalloc" => h <= g
CanOpen(hs) == \E h \in Handles : hs[h] = "unalloc"

\* ------------------------------------------------------ registry and engine
\* Begin of a call that first drops the entries of devices no longer listed
BeginPruned(out) ==
  [reg |-> [d \in DOMAIN devices_ \cap plugged |-> devices_[d]],
   hs |-> hstate, hd |-> hdev, out |-> out,
   calls |-> {}, ret |-> NoHandle, listed |-> {}, failed |-> {},
   refs |-> [d \in PlatformDevices |-> 0]]

\* The working state of one service call: the registry, the backend handles,
\* the caller's vector and the backend calls made so far.
Begin(out) == [reg |-> devices_, hs |-> hstate, hd |-> hdev, out |-> out,
               calls |-> {}, ret |-> NoHandle, listed |-> {}, failed |-> {},
               refs |-> [d \in PlatformDevices |-> 0]]

\* EnumerateDevicesImpl without the test of device_count
EnumerateDevicesImplUnchecked(listOk) == SeqOfSet(plugged)

\* UsbService::EnumerateDevicesImpl: the tokens of the listed devices, none
\* when the list query fails
EnumerateDevicesImpl(listOk) ==
  IF ~listOk THEN <<>> ELSE SeqOfSet(plugged)

\* libusb_ref_device / libusb_unref_device on the count of device d
LibusbRefDevice(refs, d) == [refs EXCEPT ![d] = @ + 1]
LibusbUnrefDevice(refs, d) == [refs EXCEPT ![d] = @ - 1]

\* libusb_get_device_list: the list holds one reference to each device
RECURSIVE GetDeviceListRefs(_, _)
GetDeviceListRefs(refs, list) ==
  IF list = <<>> THEN refs
  ELSE GetDeviceListRefs(LibusbRefDevice(refs, Head(list)), Tail(list))

\* The loop of EnumerateDevicesImpl, per device: libusb_ref_device(device);
\* the temporary RefCountedPlatformUsbDevice(device) takes a reference;
\* push_back copy-constructs the stored token, which takes another; the
\* temporary is destroyed and gives its reference back.
RECURSIVE PushTokens(_, _)
PushTokens(refs, list) ==
  IF list = <<>> THEN refs
  ELSE LET device == Head(list)
           explicit == LibusbRefDevice(refs, device)
           temporary == LibusbRefDevice(explicit, device)
           stored == LibusbRefDevice(temporary, device)
       IN PushTokens(LibusbUnrefDevice(stored, device), Tail(list))

\* libusb_free_device_list(devices, true), and ~RefCountedPlatformUsbDevice
\* for each token when the DeviceVector goes out of scope: one unref each
RECURSIVE UnrefAll(_, _)
UnrefAll(refs, list) ==
  IF list = <<>> THEN refs
  ELSE UnrefAll(LibusbUnrefDevice(refs, Head(list)), Tail(list))

\* the reference counts when EnumerateDevicesImpl returns, its tokens alive
TokenRefs(refs, list) ==
  UnrefAll(PushTokens(GetDeviceListRefs(refs, list), list), list)

\* DeviceVector enumerated_devices; EnumerateDevicesImpl(&enumerated_devices);
\* ... and the vector's destruction when the caller returns
List(st, listOk) ==
  LET list == EnumerateDevicesImpl(listOk)
  IN [st EXCEPT !.calls = @ \cup {"list"},
                !.listed = {list[i] : i \in 1..Len(list)},
                !.failed = IF listOk THEN @ ELSE @ \cup {<<"list", NoDevice>>},
                !.refs = UnrefAll(TokenRefs(@, list), list)]

\* DeviceMatches that takes a device whose descriptor it cannot read
DeviceMatchesUnread(device, vendor_id, product_id, descOk) ==
  IF ~descOk THEN TRUE
  ELSE idVendor(device) = vendor_id /\ idProduct(device) = product_id

\* DeviceMatches that compares the vendor id only
DeviceMatchesVendor(device, vendor_id, product_id, descOk) ==
  IF ~descOk THEN FALSE ELSE idVendor(device) = vendor_id

\* UsbService::DeviceMatches
DeviceMatches(device, vendor_id, product_id, descOk) ==
  IF ~descOk THEN FALSE
  ELSE idVendor(device) = vendor_id /\ idProduct(device) = product_id

\* LookupOrCreateDevice without the ContainsKey test: the device is opened
\* anew on every call and the new wrapper stored over the entry
LookupOrCreateAnew(st, device, openOk) ==
  IF ~CanOpen(st.hs)
  THEN [st EXCEPT !.calls = @ \cup {"open"}, !.ret = NoHandle,
                  !.failed = @ \cup {<<"open", device>>}]
  ELSE LET handle == FreshHandle(st.hs)
       IN [st EXCEPT !.calls = @ \cup {"open"},
                     !.hs[handle] = "open",
                     !.hd[handle] = device,
                     !.reg = Put(st.reg, device, handle),
                     !.ret = handle]

\* LookupOrCreateDevice that leaves an empty entry behind when libusb_open
\* fails
LookupOrCreateEmptyEntry(st, device, openOk) ==
  IF ~ContainsKey(st.reg, device)
  THEN IF ~(openOk /\ CanOpen(st.hs))
       THEN [st EXCEPT !.calls = @ \cup {"open"}, !.ret = NoHandle,
                       !.failed = @ \cup {<<"open", device>>},
                       !.reg = Put(st.reg, device, NoHandle)]
       ELSE LET handle == FreshHandle(st.hs)
                reg == Put(st.reg, device, handle)
            IN [st EXCEPT !.calls = @ \cup {"open"},
                          !.hs[handle] = "open",
                          !.hd[handle] = device,
                          !.reg = reg,
                          !.ret = reg[device]]
  ELSE [st EXCEPT !.ret = st.reg[device]]

\* UsbService::LookupOrCreateDevice; ret is the wrapper returned
LookupOrCreateDevice(st, device, openOk) ==
  IF ~ContainsKey(st.reg, device)
  THEN IF ~(openOk /\ CanOpen(st.hs))
       THEN [st EXCEPT !.calls = @ \cup {"open"}, !.ret = NoHandle,
                       !.failed = @ \cup {<<"open", device>>}]
       ELSE LET handle == FreshHandle(st.hs)
                reg == Put(st.reg, device, handle)
            IN [st EXCEPT !.calls = @ \cup {"open"},
                          !.hs[handle] = "open",
                          !.hd[handle] = device,
                          !.reg = reg,
                          !.ret = reg[device]]
  ELSE [st EXCEPT !.ret = st.reg[device]]

\* devices->clear()
Clear(st) == [st EXCEPT !.out = <<>>]

\* if (wrapper) devices->push_back(wrapper)
PushBack(st) ==
  IF st.ret # NoHandle THEN [st EXCEPT !.out = Append(@, st.ret)] ELSE st

\* the loop of UsbService::EnumerateDevices
RECURSIVE EnumerateLoop(_, _, _)
EnumerateLoop(st, list, openOk) ==
  IF list = <<>> THEN st
  ELSE EnumerateLoop(PushBack(LookupOrCreateDevice(st, Head(list), Head(list) \in openOk)),
                     Tail(list), openOk)

\* the loop of UsbService::FindDevicesImpl
RECURSIVE FindLoop(_, _, _, _, _, _)
FindLoop(st, list, vendor_id, product_id, descOk, openOk) ==
  IF list = <<>> THEN st
  ELSE LET device == Head(list)
           st1 == [st EXCEPT !.calls = @ \cup {"descriptor"},
                             !.failed = IF device \in descOk THEN @
                                        ELSE @ \cup {<<"descriptor", device>>}]
           st2 == IF DeviceMatches(device, vendor_id, product_id, device \in descOk)
                  THEN PushBack(LookupOrCreateDevice(st1, device, device \in openOk))
                  ELSE st1
       IN FindLoop(st2, Tail(list), vendor_id, product_id, descOk, openOk)

\* The outcomes of the backend calls of one service call are its inputs: the
\* list query, the descriptor read of each listed device, and libusb_open for
\* the devices it is called for (those that have no entry).
ToSet(list) == {list[i] : i \in 1..Len(list)}
Matching(list, vendor_id, product_id) ==
  {d \in ToSet(list) : DeviceMatches(d, vendor_id, product_id, TRUE)}
Opened(list) == ToSet(list) \ DOMAIN devices_

\* The vector a caller passes in is empty or holds what an earlier call left
\* in it (the service never looks at the elements).  Stale is the vector of
\* a caller that reuses one.
Contents ==
  {<<>>} \cup {<<h>> : h \in {g \in Handles : hstate[g] # "unalloc" /\
                                 \A f \in Handles : hstate[f] # "unalloc" => g <= f}}
Stale == CHOOSE v \in Contents : \A w \in Contents : Len(w) <= Len(v)

\* a service call is issued on the owning thread, between other calls
Callable == svc \in {"ready", "shutdown"} /\ call = NoCall

\* The call returns to its caller; a request whose callback has run is over.
Return ==
  /\ call # NoCall
  /\ call' = NoCall
  /\ req' = [r \in Requests |-> IF req[r].state = "done" THEN IdleRequest ELSE req[r]]
  /\ UNCHANGED <<svcVars, pumpVars, plugged, regVars, thr>>

Commit(st) ==
  /\ devices_' = st.reg
  /\ hstate' = st.hs
  /\ hdev' = st.hd

Did(op, path, vendor_id, product_id, st) ==
  [NoCall EXCEPT !.op = op, !.path = path, !.vendor = vendor_id,
                 !.product = product_id, !.calls = st.calls, !.out = st.out,
                 !.listed = st.listed, !.failed = st.failed, !.refs = st.refs]

\* the body of UsbService::EnumerateDevices, called with the vector devices
EnumerateDevicesCall(devices, path) ==
  /\ \E listOk \in BOOLEAN :
     \E openOk \in SUBSET Opened(EnumerateDevicesImpl(listOk)) :
       LET st0 == List(Clear(Begin(devices)), listOk)
           st == EnumerateLoop(st0, EnumerateDevicesImpl(listOk), openOk)
       IN /\ Commit(st)
          /\ call' = Did("EnumerateDevices", path, 0, 0, st)
  /\ UNCHANGED <<svcVars, pumpVars, plugged, req, thr>>

\* UsbService::EnumerateDevices
EnumerateDevices ==
  /\ Callable
  /\ EnumerateDevicesCall(Stale, "none")

\* UsbService::EnumerateDevices called again by the caller that has just got
\* its result, with the same vector and no other service call in between
EnumerateDevicesAgain ==
  /\ svc \in {"ready", "shutdown"}
  /\ call.op = "EnumerateDevices"
  /\ EnumerateDevicesCall(call.out, "again")

\* Completed with the callback run a second time
CompletedTwice(r) == [IdleRequest EXCEPT !.state = "done", !.runs = req[r].runs + 2]

\* callback.Run(), by FindDevices itself or by the ScopedClosureRunner of
\* FindDevicesImpl when that function returns: request r is complete
Completed(r) == [IdleRequest EXCEPT !.state = "done", !.runs = req[r].runs + 1]

\* AccessDenied that ignores the broker's verdict
AccessNeverDenied(success) == FALSE

\* if (!success) return;
AccessDenied(success) == ~success

\* UsbService::FindDevicesImpl, run for request r
FindDevicesImpl(r, vendor_id, product_id, path, success) ==
  \E listOk \in IF success THEN BOOLEAN ELSE {FALSE} :
  \E descOk \in SUBSET ToSet(EnumerateDevicesImpl(listOk)) :
  \E openOk \in SUBSET Opened(SeqOfSet(Matching(SeqOfSet(descOk), vendor_id, product_id))) :
    LET st0 == Clear(Begin(Stale))
        st == IF AccessDenied(success) THEN st0
              ELSE FindLoop(List(st0, listOk),
                            EnumerateDevicesImpl(listOk),
                            vendor_id, product_id, descOk, openOk)
    IN /\ Commit(st)
       /\ req' = [req EXCEPT ![r] = Completed(r)]
       /\ call' = Did("FindDevicesImpl", path, vendor_id, product_id, st)

\* a new request takes the first free slot
NextRequest ==
  {r \in Requests : req[r].state = "idle" /\
                    \A q \in Requests : q < r => req[q].state # "idle"}

\* UsbService::FindDevices without a permission broker
FindDevicesDirect ==
  /\ Callable
  /\ \E r \in NextRequest, want \in Wanted :
       /\ FindDevicesImpl(r, want[1], want[2], "direct", TRUE)
  /\ UNCHANGED <<svcVars, pumpVars, plugged, thr>>

\* UsbService::FindDevices on Chrome OS: client->RequestUsbAccess(...)
FindDevicesBroker ==
  /\ Callable
  /\ \E r \in NextRequest, want \in Wanted :
       /\ req' = [req EXCEPT ![r] = [state |-> "awaiting",
                                     vendor |-> want[1], product |-> want[2],
                                     runs |-> req[r].runs,
                                     context |-> context_]]
       /\ call' = [NoCall EXCEPT !.op = "FindDevices", !.path = "broker",
                                 !.vendor = want[1], !.product = want[2]]
  /\ UNCHANGED <<svcVars, pumpVars, plugged, regVars, thr>>

\* UsbService::FindDevices on Chrome OS without a broker client:
\* callback.Run(); return
FindDevicesNoClient ==
  /\ Callable
  /\ \E r \in NextRequest, want \in Wanted, pre \in Contents :
       /\ req' = [req EXCEPT ![r] = Completed(r)]
       /\ call' = [NoCall EXCEPT !.op = "FindDevices", !.path = "noclient",
                                 !.vendor = want[1], !.product = want[2],
                                 !.out = pre]
  /\ UNCHANGED <<svcVars, pumpVars, plugged, regVars, thr>>

\* the broker answers once: the bound FindDevicesImpl runs with its verdict
BrokerReply ==
  /\ Callable
  /\ \E r \in Requests, success \in BOOLEAN :
       /\ req[r].state = "awaiting"
       /\ FindDevicesImpl(r, req[r].vendor, req[r].product,
                          IF success THEN "granted" ELSE "denied", success)
  /\ UNCHANGED <<svcVars, pumpVars, plugged, thr>>

\* libusb_get_device(device->handle()): the device of an open handle.  A
\* closed handle is freed memory: the read yields the device still written
\* there, or, the memory reused, a value that is no key of devices_.  (Memory
\* reused by a later libusb_open makes the wrapper alias that handle; the
\* call is then CloseDevice of the later handle.)
LibusbGetDevice(h) ==
  IF hstate[h] = "open" THEN {hdev[h]} ELSE {hdev[h], NoDevice}

\* libusb_close
LibusbClose(hs, h) == [hs EXCEPT ![h] = "closed"]

\* CloseDeviceOf without the ContainsKey test: erase and close in any case
CloseDeviceUnchecked(h, platform_device) ==
  /\ devices_' = Erase(devices_, platform_device)
  /\ hstate' = LibusbClose(hstate, h)
  /\ UNCHANGED hdev
  /\ call' = [NoCall EXCEPT !.op = "CloseDevice", !.handle = h,
                            !.device = platform_device, !.calls = {"close"}]

\* UsbService::CloseDevice with the wrapper of handle h
CloseDeviceOf(h, platform_device) ==
  IF ~ContainsKey(devices_, platform_device)
  THEN /\ UNCHANGED regVars
       /\ call' = [NoCall EXCEPT !.op = "CloseDevice", !.handle = h,
                                 !.device = platform_device]
  ELSE /\ devices_' = Erase(devices_, platform_device)
       /\ hstate' = LibusbClose(hstate, h)
       /\ UNCHANGED hdev
       /\ call' = [NoCall EXCEPT !.op = "CloseDevice", !.handle = h,
                                 !.device = platform_device, !.calls = {"close"}]

CloseDevice ==
  /\ Callable
  /\ \E h \in Handles :
       /\ hstate[h] # "unalloc"
       /\ \E platform_device \in LibusbGetDevice(h) :
            CloseDeviceOf(h, platform_device)
  /\ UNCHANGED <<svcVars, pumpVars, plugged, req, thr>>

\* ------------------------------------------------------ concurrent callers
\* The same code run by several caller threads at once, one statement at a
\* time: nothing in the file serialises them.

\* EnumerateDevices up to its loop: devices->clear(); EnumerateDevicesImpl
ThreadEnumerateDevices(t) ==
  /\ thr[t].pc = "idle"
  /\ \E listOk \in BOOLEAN :
       thr' = [thr EXCEPT ![t] = [IdleThread EXCEPT
                 !.pc = "loop", !.work = EnumerateDevicesImpl(listOk)]]
  /\ UNCHANGED <<svcVars, pumpVars, plugged, regVars, req, call>>

\* FindDevicesImpl(.., success = true) up to its loop
ThreadFindDevicesImpl(t) ==
  /\ thr[t].pc = "idle"
  /\ \E listOk \in BOOLEAN, want \in Wanted :
       thr' = [thr EXCEPT ![t] = [IdleThread EXCEPT
                 !.pc = "loop", !.find = TRUE,
                 !.vendor = want[1], !.product = want[2],
                 !.work = EnumerateDevicesImpl(listOk)]]
  /\ UNCHANGED <<svcVars, pumpVars, plugged, regVars, req, call>>

\* the loop head: the next token, DeviceMatches in FindDevicesImpl
ThreadLoop(t) ==
  /\ thr[t].pc = "loop"
  /\ IF thr[t].work = <<>>
     THEN thr' = [thr EXCEPT ![t].pc = "done"]
     ELSE \E descOk \in BOOLEAN :
            LET device == Head(thr[t].work)
                go == ~thr[t].find \/
                      DeviceMatches(device, thr[t].vendor, thr[t].product, descOk)
            IN thr' = [thr EXCEPT ![t].work = Tail(@),
                                  ![t].device = device,
                                  ![t].pc = IF go THEN "lookup" ELSE "loop"]
  /\ UNCHANGED <<svcVars, pumpVars, plugged, regVars, req, call>>

\* LookupOrCreateDevice: if (!ContainsKey(devices_, device))
ThreadContainsKey(t) ==
  /\ thr[t].pc = "lookup"
  /\ thr' = [thr EXCEPT ![t].pc = IF ContainsKey(devices_, thr[t].device)
                                   THEN "return" ELSE "open"]
  /\ UNCHANGED <<svcVars, pumpVars, plugged, regVars, req, call>>

\* LookupOrCreateDevice: libusb_open(device, &handle)
ThreadOpen(t) ==
  /\ thr[t].pc = "open"
  /\ \E openOk \in BOOLEAN :
       IF openOk /\ CanOpen(hstate)
       THEN LET handle == FreshHandle(hstate)
            IN /\ hstate' = [hstate EXCEPT ![handle] = "open"]
               /\ hdev' = [hdev EXCEPT ![handle] = thr[t].device]
               /\ thr' = [thr EXCEPT ![t].handle = handle, ![t].pc = "store"]
       ELSE /\ thr' = [thr EXCEPT ![t].pc = "loop"]
            /\ UNCHANGED <<hstate, hdev>>
  /\ UNCHANGED <<svcVars, pumpVars, plugged, devices_, req, call>>

\* LookupOrCreateDevice: devices_[device] = wrapper
ThreadStore(t) ==
  /\ thr[t].pc = "store"
  /\ devices_' = Put(devices_, thr[t].device, thr[t].handle)
  /\ thr' = [thr EXCEPT ![t].pc = "return"]
  /\ UNCHANGED <<svcVars, pumpVars, plugged, hstate, hdev, req, call>>

\* LookupOrCreateDevice: return devices_[device].get(); push_back(wrapper)
ThreadReturn(t) ==
  /\ thr[t].pc = "return"
  /\ thr' = [thr EXCEPT ![t].out = Append(@, devices_[thr[t].device]),
                        ![t].pc = "loop"]
  /\ UNCHANGED <<svcVars, pumpVars, plugged, regVars, req, call>>

\* ---------------------------------------------------------- specifications
\* The service in use: calls made one after another on a constructed service
\* while devices come and go.
Next ==
  \/ EnumerateDevices \/ EnumerateDevicesAgain
  \/ FindDevicesDirect \/ FindDevicesBroker
  \/ FindDevicesNoClient \/ BrokerReply \/ CloseDevice \/ Return
  \/ Plug \/ Unplug

Spec == Init /\ [][Next]_vars

\* The event pump: construction, the pump thread and Shutdown, with
\* enumeration as the service call made meanwhile.
NextPump ==
  \/ CtorInit \/ CtorCreateThread \/ CtorWait
  \/ PumpSignal \/ PumpTest \/ PumpEnterHandleEvents \/ PumpInterrupted \/ PumpEvent
  \/ StopSetRunning \/ StopInterrupt \/ StopJoin \/ ShutdownExit
  \/ EnumerateDevices \/ Return \/ Plug \/ Unplug

SpecPump == InitNew /\ [][NextPump]_vars

\* The pump thread keeps running while it has a step to take (PumpEvent, the
\* arrival of a USB event, is not promised), and a thread inside Stop goes on.
LivePump ==
  SpecPump /\ WF_vars(PumpStep) /\ WF_vars(StopInterrupt) /\ WF_vars(StopJoin)

\* The whole life of the service: every call, before and after Shutdown.
NextLifecycle ==
  \/ CtorInit \/ CtorCreateThread \/ CtorWait
  \/ PumpSignal \/ PumpTest \/ PumpEnterHandleEvents \/ PumpInterrupted \/ PumpEvent
  \/ StopSetRunning \/ StopInterrupt \/ StopJoin \/ ShutdownExit
  \/ EnumerateDevices \/ EnumerateDevicesAgain
  \/ FindDevicesDirect \/ FindDevicesBroker
  \/ FindDevicesNoClient \/ BrokerReply \/ CloseDevice \/ Return
  \/ Plug \/ Unplug

SpecLifecycle == InitNew /\ [][NextLifecycle]_vars

\* The registry while the pump thread runs: the calls that read or write
\* devices_ (FindDevices in its ungated form; the broker paths run the same
\* FindDevicesImpl) and the loop of ThreadMain servicing USB events.
NextRegistry ==
  \/ EnumerateDevices \/ EnumerateDevicesAgain \/ FindDevicesDirect
  \/ CloseDevice \/ Return \/ Plug \/ Unplug
  \/ PumpTest \/ PumpEnterHandleEvents \/ PumpEvent

SpecRegistry == Init /\ [][NextRegistry]_vars

\* Several caller threads inside EnumerateDevices / FindDevicesImpl at once.
NextConcurrent ==
  \E t \in Threads :
    \/ ThreadEnumerateDevices(t) \/ ThreadFindDevicesImpl(t) \/ ThreadLoop(t)
    \/ ThreadContainsKey(t) \/ ThreadOpen(t) \/ ThreadStore(t) \/ ThreadReturn(t)

SpecConcurrent == Init /\ [][NextConcurrent]_vars
\* -------------------------------------------------------------- properties
HandlesOf(d) == {h \in Handles : hstate[h] # "unalloc" /\ hdev[h] = d}
OpenHandlesOf(d) == {h \in HandlesOf(d) : hstate[h] = "open"}
\* the step is the service call op
Made(op) == call = NoCall /\ call'.op = op

\* C1: however many callers are inside LookupOrCreateDevice for one device at
\* once, the device is opened once and every caller is handed the same handle.
C1_OneOpenPerIdentity ==
  /\ \A d \in PlatformDevices : Cardinality(HandlesOf(d)) <= 1
  /\ \A t, u \in Threads :
       \A i \in 1..Len(thr[t].out), j \in 1..Len(thr[u].out) :
         hdev[thr[t].out[i]] = hdev[thr[u].out[j]] => thr[t].out[i] = thr[u].out[j]

\* C2: a device is a key of devices_ exactly when a backend handle is open on
\* it, and no device has two open backend handles.
C2_KeyIffOpenHandle ==
  \A d \in PlatformDevices :
    /\ ContainsKey(devices_, d) <=> OpenHandlesOf(d) # {}
    /\ Cardinality(OpenHandlesOf(d)) <= 1

\* C3: once Stop has cleared running_, the pump thread leaves its loop and the
\* Join completes, wherever the pump thread was.
C3_StopReturns == (svc = "stop_interrupt") ~> (svc = "stopped")

C3_Witness == svc = "stop_join" /\ pump = "parked" /\ interrupted /\ ~running_

\* C4: when Stop has returned the pump thread has exited, and the thread is
\* never inside (or about to enter) libusb_handle_events on a released context.
C4_JoinedBeforeExit ==
  /\ svc \in {"stopped", "shutdown"} => pump = "done"
  /\ pump \in {"start", "test", "call", "parked"} => ctxAlive

C4_Witness == svc = "shutdown" /\ pump = "done" /\ ~ctxAlive

\* C5: the constructor creates one thread and returns only after that thread
\* has signalled: a constructed service has a pump thread past its Signal.
C5_StartedBeforeReturn ==
  /\ threadsCreated <= 1
  /\ svc \notin {"new", "ctor_create", "ctor_wait"} =>
       threadsCreated = 1 /\ pump \notin {"unborn", "start"}

C5_Witness == svc = "ready" /\ pump = "test" /\ running_ /\ threadsCreated = 1

\* C6: the callback of a FindDevices request has run exactly once when the
\* request completes, on every path, and not at all before.
C6_CallbackOnce ==
  /\ \A r \in Requests :
       /\ req[r].runs \in {0, 1}
       /\ req[r].state = "done" <=> req[r].runs = 1
  /\ call.path \in {"direct", "granted", "denied", "noclient"} =>
       Cardinality({r \in Requests : req[r].state = "done"}) = 1
  /\ call.path \in {"none", "broker"} =>
       \A r \in Requests : req[r].state # "done"

C6_Witness ==
  /\ call.path = "granted"
  /\ call.out # <<>>
  /\ \E r \in Requests : req[r].state = "done" /\ req[r].runs = 1

\* C7: a denied request delivers an empty result, makes no backend call (no
\* list query, no open) and leaves the registry and the handles as they were.
C7_DeniedDoesNothing ==
  [][(Made("FindDevicesImpl") /\ call'.path = "denied") =>
       /\ call'.out = <<>>
       /\ call'.calls = {}
       /\ devices_' = devices_
       /\ hstate' = hstate]_vars

C7_Witness ==
  /\ call.op = "FindDevicesImpl"
  /\ call.path = "denied"
  /\ \E d \in plugged : /\ DeviceMatches(d, call.vendor, call.product, TRUE)
                         /\ ~ContainsKey(devices_, d)

\* C8: without a broker client the callback runs with an empty result vector.
C8_NoClientEmpty ==
  (call.op = "FindDevices" /\ call.path = "noclient") => call.out = <<>>

\* C9: after Shutdown no service call invokes a backend primitive or changes
\* the registry.
C9_RejectedAfterShutdown ==
  [][(svc = "shutdown" /\ call = NoCall) =>
       (call'.calls = {} /\ devices_' = devices_)]_vars

\* C10: CloseDevice on a handle whose device is tracked removes the device
\* from the registry and closes the handle; an entry that appears for a
\* device is a handle opened by that very call, and every handle a call
\* returns is open.
C10_CloseThenFreshOpen ==
  [][/\ (Made("CloseDevice") /\ ContainsKey(devices_, call'.device)) =>
          /\ ~ContainsKey(devices_', call'.device)
          /\ hstate'[call'.handle] = "closed"
          /\ "close" \in call'.calls
     /\ \A d \in DOMAIN devices_' \ DOMAIN devices_ :
          /\ hstate[devices_'[d]] = "unalloc"
          /\ hstate'[devices_'[d]] = "open"
          /\ hdev'[devices_'[d]] = d
          /\ "open" \in call'.calls
     /\ (Made("EnumerateDevices") \/ Made("FindDevicesImpl")) =>
          \A i \in 1..Len(call'.out) : hstate'[call'.out[i]] = "open"]_vars

C10_Witness ==
  \E old, new \in Handles :
    /\ hstate[old] = "closed"
    /\ hstate[new] = "open"
    /\ hdev[old] = hdev[new]
    /\ ContainsKey(devices_, hdev[new])
    /\ devices_[hdev[new]] = new
    /\ call.op = "EnumerateDevices"
    /\ "open" \in call.calls
    /\ \E i \in 1..Len(call.out) : call.out[i] = new

\* C11: CloseDevice with a handle whose device is no key of devices_ changes
\* neither the registry nor any backend handle and issues no libusb_close.
C11_CloseUntrackedNoOp ==
  [][(Made("CloseDevice") /\ call'.device \notin DOMAIN devices_) =>
       /\ devices_' = devices_
       /\ hstate' = hstate
       /\ hdev' = hdev
       /\ call'.calls = {}]_vars

C11_Witness ==
  /\ call.op = "CloseDevice"
  /\ call.calls = {}
  /\ hstate[call.handle] = "closed"
  /\ call.device \notin DOMAIN devices_
  /\ devices_ # EmptyMap

\* C12: no backend handle is closed twice: CloseDevice with a handle that is
\* already closed issues no libusb_close and leaves the registry as it is,
\* also when the device has been opened again since.
C12_NoDoubleClose ==
  [][(Made("CloseDevice") /\ hstate[call'.handle] = "closed") =>
       /\ "close" \notin call'.calls
       /\ devices_' = devices_]_vars

\* the handles in the vector a call delivered
Returned == {call.out[i] : i \in 1..Len(call.out)}
\* the call's list query, or its descriptor read or libusb_open of d, failed
Failed(primitive, d) == <<primitive, d>> \in call.failed

\* C13: a granted or ungated FindDevices delivers, once each, exactly the
\* registered handles of the currently listed devices whose descriptor holds
\* the requested vendor id and the requested product id; such a device is
\* left out only when libusb_open failed for it.
C13_ExactMatch ==
  (call.op = "FindDevicesImpl" /\ call.path \in {"direct", "granted"}) =>
    LET match == {d \in call.listed : /\ ~Failed("descriptor", d)
                                      /\ idVendor(d) = call.vendor
                                      /\ idProduct(d) = call.product}
    IN /\ ~Failed("list", NoDevice) => call.listed = plugged
       /\ Returned = {devices_[d] : d \in match \cap DOMAIN devices_}
       /\ Len(call.out) = Cardinality(Returned)
       /\ \A d \in match : ContainsKey(devices_, d) \/ Failed("open", d)
       /\ \A h \in Returned : /\ hstate[h] = "open"
                              /\ hdev[h] \in plugged
                              /\ idVendor(hdev[h]) = call.vendor
                              /\ idProduct(hdev[h]) = call.product

C13_Witness ==
  /\ call.op = "FindDevicesImpl"
  /\ call.path \in {"direct", "granted"}
  /\ Returned # {}
  /\ \E d \in plugged : /\ idVendor(d) = call.vendor
                         /\ idProduct(d) # call.product
                         /\ ContainsKey(devices_, d)
                         /\ devices_[d] \notin Returned

\* the step is an EnumerateDevices made straight after another (a hot-plug
\* step in between changes plugged and nothing else)
Again ==
  /\ call.op = "EnumerateDevices"
  /\ call'.op = "EnumerateDevices"
  /\ call'.path = "again"
  /\ plugged' = plugged

\* C14 (as stated): a second EnumerateDevices, the backend's list the one the
\* first call saw and no CloseDevice in between, returns the vector the first
\* returned and calls no libusb_open.
C14_SecondCallSame ==
  [][(Again /\ ~Failed("list", NoDevice) /\ call.listed = plugged) =>
       /\ call'.out = call.out
       /\ "open" \notin call'.calls]_vars

\* C14 (amended): every EnumerateDevices makes its own list query and, that
\* query succeeding, sees the devices now listed; a second call keeps the
\* entry of every device that has one, opens only devices that have none, and
\* returns the handle of every listed device that has an entry, so one of
\* a device added in between.  When no backend call of either call failed
\* and the list is the one the first call saw, it returns the first call's
\* vector and opens nothing.
C14_SecondCallIdempotent ==
  [][Again =>
       LET ok == <<"list", NoDevice>> \notin call'.failed
           out == {call'.out[i] : i \in 1..Len(call'.out)}
       IN /\ "list" \in call'.calls
          /\ ok => call'.listed = plugged
          /\ \A d \in DOMAIN devices_ : /\ ContainsKey(devices_', d)
                                        /\ devices_'[d] = devices_[d]
          /\ \A h \in Handles :
               (hstate[h] = "unalloc" /\ hstate'[h] = "open") =>
                 ~ContainsKey(devices_, hdev'[h])
          /\ out = {devices_'[d] : d \in call'.listed \cap DOMAIN devices_'}
          /\ \A d \in call'.listed :
               ContainsKey(devices_', d) \/ <<"open", d>> \in call'.failed
          /\ (ok /\ call'.failed = {} /\ call.failed = {} /\ call.listed = plugged) =>
               /\ call'.out = call.out
               /\ "open" \notin call'.calls]_vars

\* the second of two calls: it returned the first call's handles without a
\* libusb_open, and the handle of a device plugged in since
C14_Witness ==
  /\ call.op = "EnumerateDevices"
  /\ call.path = "again"
  /\ call.failed = {}
  /\ Len(call.out) = 2
  /\ "open" \notin call.calls

\* C15: a broker grant that arrives after Shutdown, for a request made before
\* it, runs FindDevicesImpl without a list query, descriptor read or open on
\* the released context.
C15_NoLateBackendAccess ==
  [][\A r \in Requests :
       (/\ req[r].state = "awaiting"
        /\ req[r].context = "ctx"
        /\ ~ctxAlive
        /\ context_ = "NULL"
        /\ Made("FindDevicesImpl")
        /\ call'.path = "granted"
        /\ req'[r].state = "done") => call'.calls = {}]_vars

\* C16: the tokens of an enumeration hold a reference to their device while
\* they live, and when the call has returned (the backend list freed, every
\* token destroyed) each device's reference count is what it was before.
C16_RefsBalanced ==
  /\ \A d \in plugged :
       TokenRefs([x \in PlatformDevices |-> 0], SeqOfSet(plugged))[d] >= 1
  /\ call.op \in {"EnumerateDevices", "FindDevicesImpl"} =>
       \A d \in PlatformDevices : call.refs[d] = 0

\* the step is an EnumerateDevices or a FindDevicesImpl
Enumerated ==
  Made("EnumerateDevices") \/ Made("FindDevicesImpl") \/ Again

\* C17: a device whose libusb_open fails gets no entry in devices_ and no
\* handle, and is not in the result; the call changes the registry only by
\* the entries of the devices it did open, and every other device it looks
\* up is in the result with its entry.
C17_OpenFailureLeavesRegistry ==
  [][Enumerated =>
       LET out == {call'.out[i] : i \in 1..Len(call'.out)}
           lookedUp == {d \in call'.listed :
                          call'.op = "FindDevicesImpl" =>
                            /\ <<"descriptor", d>> \notin call'.failed
                            /\ idVendor(d) = call'.vendor
                            /\ idProduct(d) = call'.product}
           failed == {d \in PlatformDevices : <<"open", d>> \in call'.failed}
       IN /\ failed \subseteq lookedUp
          /\ \A d \in failed :
               /\ ~ContainsKey(devices_, d)
               /\ ~ContainsKey(devices_', d)
               /\ \A h \in out : hdev'[h] # d
               /\ \A h \in Handles : hstate[h] = "unalloc" =>
                                        (hstate'[h] = "unalloc" \/ hdev'[h] # d)
          /\ DOMAIN devices_' = DOMAIN devices_ \cup (lookedUp \ failed)
          /\ \A d \in DOMAIN devices_ : devices_'[d] = devices_[d]
          /\ \A d \in lookedUp \ failed : devices_'[d] \in out]_vars

\* one call in which libusb_open failed for a device and a device later in
\* the list was opened and returned
C17_Witness ==
  /\ call.op = "EnumerateDevices"
  /\ \E d, e \in call.listed :
       /\ d < e
       /\ Failed("open", d)
       /\ ~ContainsKey(devices_, d)
       /\ ContainsKey(devices_, e)
       /\ call.out = <<devices_[e]>>
       /\ "open" \in call.calls
       /\ \A h \in Handles : hstate[h] # "unalloc" => h = devices_[e]

\* C18: when the list query fails the call sees no device: its result is
\* empty, it makes no backend call besides the query, devices_ and the
\* backend handles stay as they were, and the callback of a FindDevices
\* request runs all the same.
C18_ListFailureEmpty ==
  [][(Enumerated /\ <<"list", NoDevice>> \in call'.failed) =>
       /\ call'.listed = {}
       /\ call'.out = <<>>
       /\ call'.calls = {"list"}
       /\ devices_' = devices_
       /\ hstate' = hstate
       /\ hdev' = hdev
       /\ call'.op = "FindDevicesImpl" =>
            \E r \in Requests : /\ req[r].state # "done"
                                 /\ req'[r].state = "done"
                                 /\ req'[r].runs = 1]_vars

\* a granted request whose list query failed while a matching device, and a
\* tracked one, were plugged in
C18_Witness ==
  /\ call.op = "FindDevicesImpl"
  /\ call.path = "granted"
  /\ Failed("list", NoDevice)
  /\ call.out = <<>>
  /\ \E r \in Requests : req[r].state = "done"
  /\ \E d \in plugged : /\ idVendor(d) = call.vendor
                         /\ idProduct(d) = call.product
                         /\ ~ContainsKey(devices_, d)
  /\ \E d \in plugged : ContainsKey(devices_, d)

\* C19: a listed device whose descriptor read fails is passed over by
\* FindDevicesImpl whatever ids were asked for: libusb_open is not called for
\* it, no handle is opened on it, it gains no entry in devices_ (and keeps the
\* one it has), and no handle of it is in the result.
C19_DescriptorFailureNoMatch ==
  [][Made("FindDevicesImpl") =>
       \A d \in PlatformDevices : <<"descriptor", d>> \in call'.failed =>
         /\ d \in call'.listed
         /\ <<"open", d>> \notin call'.failed
         /\ \A h \in Handles : hstate[h] = "unalloc" =>
                                  (hstate'[h] = "unalloc" \/ hdev'[h] # d)
         /\ ContainsKey(devices_', d) <=> ContainsKey(devices_, d)
         /\ ContainsKey(devices_, d) => devices_'[d] = devices_[d]
         /\ \A i \in 1..Len(call'.out) : hdev'[call'.out[i]] # d]_vars

\* the descriptor read failed for a plugged device that has the requested
\* ids and no entry, while libusb_open had a handle to give
C19_Witness ==
  /\ call.op = "FindDevicesImpl"
  /\ call.path \in {"direct", "granted"}
  /\ CanOpen(hstate)
  /\ \E d \in plugged : /\ Failed("descriptor", d)
                         /\ idVendor(d) = call.vendor
                         /\ idProduct(d) = call.product
                         /\ ~ContainsKey(devices_, d)

====
